---- MODULE Spec2Model ----
(***************************************************************************)
(* Electrostatic field engine (Charge, ElectrostaticField), the slider     *)
(* session of plot_interactive_field and plot_3d_potential, from           *)
(* src/PythonApplication2.py (src/code.py is the same program without the  *)
(* tutorial comments).                                                     *)
(*                                                                         *)
(* Numbers.  The program computes in float64.  The model computes in       *)
(* fixed point: a length is an integer number of 1/Unit metres, a charge   *)
(* magnitude an integer number of half nanocoulombs, and every quotient is *)
(* rounded toward zero (sign-symmetric, like IEEE rounding).  A distance   *)
(* is the floor of the exact square root, so that "distance < 0.1" is      *)
(* decided exactly: floor(sqrt(d2)) < T  <=>  d2 < T*T for an integer T.   *)
(* A division by zero does not stop numpy: it yields inf or nan.  The      *)
(* model carries that as the flag `fin` beside the number.                 *)
(* Python indices are 0-based; a 2-vector [x, y] is the tuple <<x, y>>,    *)
(* so v[0], v[1] of the source are v[1], v[2] here.                        *)
(***************************************************************************)
EXTENDS Integers, Sequences, FiniteSets, TLC

\* The proximity threshold 0.1 of the source, as the fraction ThreshNum/ThreshDen.
ThreshNum == 1
ThreshDen == 10

\* Fixed-point resolution of a length: Unit model units are one metre.  With 60,
\* 0.1 m is 6 units and every lattice the model builds (the extents of
\* EngineArgs over up to 7 samples) falls on whole units.
Unit == 60

\* One metre, for writing coordinates.
Metre == Unit

\* 0.1 m in model units.
Threshold == (ThreshNum * Unit) \div ThreshDen

\* Coulomb's constant k = 8.9875517923e9, times 1e-9 (charges are counted in
\* nanocoulombs), to three significant digits, in units of 0.01.
K == 899

\* One nanocoulomb (1e-9 C) in model charge units: a unit is half a nanocoulomb.
NanoCoulomb == 2

Abs(a) == IF a < 0 THEN -a ELSE a

Sgn(a) == IF a < 0 THEN -1 ELSE IF a > 0 THEN 1 ELSE 0

\* a / b in fixed point, rounded toward zero; b = 0 is handled by the callers
\* (the result is then inf or nan, carried in `fin`), the number is a placeholder.
Quot(a, b) == IF b = 0 THEN 0 ELSE Sgn(a) * Sgn(b) * (Abs(a) \div Abs(b))

RECURSIVE ISqrtBetween(_, _, _)
\* The largest r in lo..hi with r*r <= n (lo*lo <= n < (hi+1)*(hi+1)).
ISqrtBetween(n, lo, hi) ==
    IF lo = hi THEN lo
    ELSE LET mid == (lo + hi + 1) \div 2
         IN  IF mid * mid <= n THEN ISqrtBetween(n, mid, hi)
                               ELSE ISqrtBetween(n, lo, mid - 1)

\* Largest distance the model computes (keeps r*r and r*r*r inside 32 bits).
MaxNorm == 17 * Unit

\* np.linalg.norm of a 2-vector: the Euclidean length, floored to a model unit.
norm(r) == ISqrtBetween(r[1] * r[1] + r[2] * r[2], 0, MaxNorm)

\* A Python number literal: its value in model units and whether it is a float.
PyInt(v) == [v |-> v, f |-> FALSE]
PyFloat(v) == [v |-> v, f |-> TRUE]

\* Charge.__init__: q, and pos = np.array([x, y]).  numpy gives the array the
\* dtype int64 when both coordinates are Python ints and float64 otherwise.
Charge(q, x, y) ==
    [q |-> q, pos |-> <<x.v, y.v>>,
     dtype |-> IF x.f \/ y.f THEN "float64" ELSE "int64"]

\* Conversion of a float to an element of an int64 array: truncation toward
\* zero to a whole number (of metres).
TruncToInt(v) == Sgn(v) * ((Abs(v) \div Unit) * Unit)

\* pos[idx] = v on a numpy array: the value is cast to the array's dtype.
setitem(c, idx, v) ==
    [c EXCEPT !.pos[idx] = IF c.dtype = "int64" THEN TruncToInt(v) ELSE v]

\* Mutant of linspace: the samples of endpoint=False (stop is not a sample).
linspace_noend(start, stop, num) ==
    [i \in 0..(num - 1) |-> start + Quot(i * (stop - start), num)]

\* np.linspace(start, stop, num) for num >= 0 (num < 0 raises ValueError, see
\* __init__): num evenly spaced samples, the first start and the last stop; for
\* num = 1 the single sample start; for num = 0 none.  Indexed 0..num-1.
linspace(start, stop, num) ==
    [i \in 0..(num - 1) |->
        IF num = 1 THEN start
        ELSE start + Quot(i * (stop - start), num - 1)]

\* Mutant of meshgridX: the X of indexing='ij' (the first index selects x).
meshgridX_ij(x, y) == [i \in DOMAIN x |-> [j \in DOMAIN y |-> x[i]]]

\* np.meshgrid(x, y): X[i][j] = x[j] and Y[i][j] = y[i], for i over y, j over x.
meshgridX(x, y) == [i \in DOMAIN y |-> [j \in DOMAIN x |-> x[j]]]

meshgridY(x, y) == [i \in DOMAIN y |-> [j \in DOMAIN x |-> y[i]]]

\* Mutant of HalfExtent: the whole grid_size for its half.
HalfExtent_whole(grid_size) == grid_size * Unit

\* -grid_size/2 and grid_size/2 (true division), in model units.
HalfExtent(grid_size) == Quot(grid_size * Unit, 2)

\* ---------------------------------------------------------------- evaluation

\* Mutant of skip_field: "<=" for "<".
skip_field_le(r_magnitude) == r_magnitude <= Threshold

\* Mutant of skip_field: the guard is missing.
skip_field_never(r_magnitude) == FALSE

\* calculate_field, line 103: "if r_magnitude < 0.1: continue".
skip_field(r_magnitude) == r_magnitude < Threshold

\* Mutant of skip_potential: "<=" for "<".
skip_potential_le(r) == r <= Threshold

\* Mutant of skip_potential: 1.0 for 0.1.
skip_potential_wide(r) == r < Metre

\* calculate_potential, line 128: "if r < 0.1: continue".
skip_potential(r) == r < Threshold

\* calculate_field, line 107: E = k * charge.q * r / (r_magnitude**3), a 2-vector.
\* `fin` is FALSE when the divisor is zero (numpy then yields inf or nan).
field_term(q, r, r_magnitude) ==
    LET r3 == r_magnitude * r_magnitude * r_magnitude
    IN  [E |-> <<Quot(K * q * r[1] * Unit, r3), Quot(K * q * r[2] * Unit, r3)>>,
         fin |-> r3 # 0]

\* Mutant of potential_term: the charge's sign is lost (k * |q| / r).
potential_term_unsigned(q, r) == [V |-> Quot(K * Abs(q) * Unit, r), fin |-> r # 0]

\* calculate_potential, line 132: V = k * charge.q / r.
potential_term(q, r) == [V |-> Quot(K * q * Unit, r), fin |-> r # 0]

RECURSIVE field_loop_break(_, _, _, _)
\* Mutant of field_loop: "break" for "continue" at a charge that is too close.
field_loop_break(point, chs, n, acc) ==
    IF n > Len(chs) THEN acc
    ELSE LET charge == chs[n]
             r == <<point[1] - charge.pos[1], point[2] - charge.pos[2]>>
             r_magnitude == norm(r)
         IN  IF skip_field(r_magnitude)
             THEN acc
             ELSE LET E == field_term(charge.q, r, r_magnitude)
                  IN  field_loop_break(point, chs, n + 1,
                          [E |-> <<acc.E[1] + E.E[1], acc.E[2] + E.E[2]>>,
                           fin |-> acc.fin /\ E.fin,
                           den |-> acc.den \cup {r_magnitude}])

RECURSIVE field_loop(_, _, _, _)
\* calculate_field, lines 95-109: the loop over self.charges from the n-th charge
\* on, E_total being acc.E.  acc.den collects the distances divided by.
field_loop(point, chs, n, acc) ==
    IF n > Len(chs) THEN acc
    ELSE LET charge == chs[n]
             r == <<point[1] - charge.pos[1], point[2] - charge.pos[2]>>
             r_magnitude == norm(r)
         IN  IF skip_field(r_magnitude)
             THEN field_loop(point, chs, n + 1, acc)
             ELSE LET E == field_term(charge.q, r, r_magnitude)
                  IN  field_loop(point, chs, n + 1,
                          [E |-> <<acc.E[1] + E.E[1], acc.E[2] + E.E[2]>>,
                           fin |-> acc.fin /\ E.fin,
                           den |-> acc.den \cup {r_magnitude}])

\* calculate_field(point): E_total = np.zeros(2), the loop, return E_total.
calculate_field(point, chs) ==
    field_loop(point, chs, 1, [E |-> <<0, 0>>, fin |-> TRUE, den |-> {}])

RECURSIVE potential_loop(_, _, _, _)
\* calculate_potential, lines 124-134: the loop over self.charges.
potential_loop(point, chs, n, acc) ==
    IF n > Len(chs) THEN acc
    ELSE LET charge == chs[n]
             r == norm(<<point[1] - charge.pos[1], point[2] - charge.pos[2]>>)
         IN  IF skip_potential(r)
             THEN potential_loop(point, chs, n + 1, acc)
             ELSE LET V == potential_term(charge.q, r)
                  IN  potential_loop(point, chs, n + 1,
                          [V |-> acc.V + V.V,
                           fin |-> acc.fin /\ V.fin,
                           den |-> acc.den \cup {r}])

\* calculate_potential(point): V_total = 0, the loop, return V_total.
calculate_potential(point, chs) ==
    potential_loop(point, chs, 1, [V |-> 0, fin |-> TRUE, den |-> {}])

\* np.zeros_like(A): an array of A's shape holding zeros.
zeros_like(A) == [i \in DOMAIN A |-> [j \in DOMAIN A[i] |-> 0]]

\* Mutant of range: one index short.
range_short(n) == [k \in 1..(n - 1) |-> k - 1]

\* range(n): the indices 0, 1, .., n-1 in order (none for n <= 0).
range(n) == [k \in 1..n |-> k - 1]

RECURSIVE grid_row(_, _, _, _, _, _)
\* calculate_field_grid, lines 151-160: the inner loop "for j in range(...)" of
\* row i, over the indices js.  acc.written collects the index pairs assigned,
\* acc.den the distances divided by.
grid_row(XX, YY, chs, i, js, acc) ==
    IF js = <<>> THEN acc
    ELSE LET j == Head(js)
             point == <<XX[i][j], YY[i][j]>>
             E == calculate_field(point, chs)
             V == calculate_potential(point, chs)
         IN  grid_row(XX, YY, chs, i, Tail(js),
                 [Ex |-> [acc.Ex EXCEPT ![i][j] = E.E[1]],
                  Ey |-> [acc.Ey EXCEPT ![i][j] = E.E[2]],
                  V |-> [acc.V EXCEPT ![i][j] = V.V],
                  fin |-> acc.fin /\ E.fin /\ V.fin,
                  den |-> acc.den \cup E.den \cup V.den,
                  written |-> acc.written \cup {<<i, j>>}])

RECURSIVE grid_rows(_, _, _, _, _, _)
\* calculate_field_grid, line 150: the outer loop "for i in range(...)".
grid_rows(XX, YY, chs, is, js, acc) ==
    IF is = <<>> THEN acc
    ELSE grid_rows(XX, YY, chs, Tail(is), js,
                   grid_row(XX, YY, chs, Head(is), js, acc))

\* calculate_field_grid(): Ex, Ey, V start as zeros of the lattice's shape, the
\* double loop fills them, and the three arrays are returned.
calculate_field_grid(XX, YY, gp, chs) ==
    grid_rows(XX, YY, chs, range(gp), range(gp),
              [Ex |-> zeros_like(XX), Ey |-> zeros_like(YY), V |-> zeros_like(XX),
               fin |-> TRUE, den |-> {}, written |-> {}])

\* ------------------------------------------------------------------- bounds

\* Largest grid_points a construction is given.
MaxRes == 3

\* Most direct (library-caller) mutations of a charge in one run.
MaxMut == 1

\* ------------------------------------------------------------ configurations

\* The module-level list of lines 170-175: +1 nC at (-2, 0), -1 nC at (2, 0),
\* built from Python ints.
DefaultCharges ==
    << Charge(NanoCoulomb, PyInt(-2 * Metre), PyInt(0)),
       Charge(-NanoCoulomb, PyInt(2 * Metre), PyInt(0)) >>

\* Float-coordinate charges around the origin: one 0.05 m from it (inside the
\* threshold), one exactly 0.1 m from it, one a metre away.
NearCharges ==
    << Charge(3, PyFloat(0), PyFloat(Threshold \div 2)),
       Charge(-NanoCoulomb, PyFloat(Threshold), PyFloat(0)),
       Charge(NanoCoulomb, PyFloat(-Metre), PyFloat(Metre \div 2)) >>

\* Two charges at the same place (a valid degenerate configuration).
CoincidentCharges ==
    << Charge(NanoCoulomb, PyInt(0), PyInt(0)),
       Charge(2 * NanoCoulomb, PyInt(0), PyInt(0)) >>

\* A single charge at the origin.
SingleCharge == << Charge(NanoCoulomb, PyInt(0), PyInt(0)) >>

\* An equal-and-opposite pair half a metre either side of the origin, built
\* from Python floats: +1.5 nC at (-0.5, 0.0), -1.5 nC at (0.5, 0.0).
DipoleCharges ==
    << Charge(3, PyFloat(-(Metre \div 2)), PyFloat(0)),
       Charge(-3, PyFloat(Metre \div 2), PyFloat(0)) >>

\* The charge lists a run starts from.
ChargeLists ==
    { <<>>, SingleCharge, DefaultCharges, NearCharges, CoincidentCharges,
      DipoleCharges }

\* The default grid_size of __init__ (line 56).
DefaultGridSize == 10

\* The default grid_points of __init__ (line 56).  It is beyond the grids the
\* model evaluates (MaxRes); only its axis samples are computed.
DefaultGridPoints == 30

\* (grid_size, grid_points) arguments of a construction: the default extent
\* with every resolution from -1 to MaxRes and with 5 samples per axis, a zero
\* and a negative extent.
EngineArgs ==
    { <<DefaultGridSize, gp>> : gp \in (-1)..MaxRes }
        \cup { <<DefaultGridSize, 5>>, <<0, 2>>, <<-2, 3>> }

\* point arguments of calculate_field / calculate_potential.
Points == { <<0, 0>>, <<-2 * Metre, 0>>, <<Metre, Metre \div 2>> }

\* New magnitudes and coordinates a caller writes into a charge (2.5 nC; 1.5 m).
QVals == {5}

PosVals == {Metre + (Metre \div 2)}

\* Positions the mouse drags the Q1 slider (tenths of a nanocoulomb) and the X1
\* slider (model length units) to; the last of each is beyond the slider's end.
Q1Vals == {-50, 0, 25, 60}

X1Vals == {-4 * Metre, 0, Metre \div 2, (5 * Metre) \div 2, 5 * Metre}

\* -------------------------------------------------------------------- state

VARIABLES
    pc,           \* "start", "raised" (the constructor raised), "ready",
                  \* "interactive" (inside plt.show() of plot_interactive_field),
                  \* "done" (plot_3d_potential has run)
    charges,      \* the charge list (the global list the engine holds by reference)
    grid_size,    \* self.grid_size
    grid_points,  \* self.grid_points
    X, Y,         \* self.X, self.Y
    call,         \* the latest evaluation call: what it was given and returned
    nmut,         \* number of direct mutations so far
    q1_slider,    \* q1_slider.val
    x1_slider,    \* x1_slider.val
    drawn,        \* the axes `ax`: the artists added since they were last cleared
    steps,        \* the statements the latest plotting function or callback ran
    figure        \* the 3D figure of plot_3d_potential

vars == <<pc, charges, grid_size, grid_points, X, Y, call, nmut,
          q1_slider, x1_slider, drawn, steps, figure>>

engine == <<charges, grid_size, grid_points, X, Y>>

\* The record kept of an evaluation call.  charges is the list as it was when
\* the call was made; the fields a call does not return keep these defaults.
NoCall ==
    [op |-> "none", point |-> <<0, 0>>, charges |-> <<>>,
     E |-> <<0, 0>>, V |-> 0, fin |-> TRUE, den |-> {},
     Ex |-> <<>>, Ey |-> <<>>, Vg |-> <<>>, written |-> {}]

FieldCall(point, chs) ==
    LET e == calculate_field(point, chs)
    IN  [NoCall EXCEPT !.op = "field", !.point = point, !.charges = chs,
                       !.E = e.E, !.fin = e.fin, !.den = e.den]

PotentialCall(point, chs) ==
    LET v == calculate_potential(point, chs)
    IN  [NoCall EXCEPT !.op = "potential", !.point = point, !.charges = chs,
                       !.V = v.V, !.fin = v.fin, !.den = v.den]

GridCall(XX, YY, gp, chs) ==
    LET g == calculate_field_grid(XX, YY, gp, chs)
    IN  [NoCall EXCEPT !.op = "grid", !.charges = chs,
                       !.Ex = g.Ex, !.Ey = g.Ey, !.Vg = g.V,
                       !.fin = g.fin, !.den = g.den, !.written = g.written]

\* Resolution of the Q1 slider's value: Q1Unit units are 1 (nanocoulomb).
Q1Unit == 10

\* q1_slider.val * 1e-9 (line 284): the slider's value, counted in tenths of a
\* nanocoulomb, to a charge in model charge units; and charges[0].q / 1e-9
\* (line 274), the slider's initial value.
nC_to_C(val) == Quot(val * NanoCoulomb, Q1Unit)

C_to_nC(q) == Quot(q * Q1Unit, NanoCoulomb)

\* The ends of the sliders: Slider(ax_q1, 'Q1 (nC)', -5, 5, ..) and
\* Slider(ax_x1, 'X1 (m)', -4, 4, ..), lines 274 and 276.
Q1Min == -5 * Q1Unit

Q1Max == 5 * Q1Unit

X1Min == -4 * Metre

X1Max == 4 * Metre

\* Mutant of value_in_bounds: the value is not clipped.
value_in_bounds_open(val, valmin, valmax) == val

\* Slider._value_in_bounds: a value beyond an end of the slider becomes that end.
value_in_bounds(val, valmin, valmax) ==
    IF val <= valmin THEN valmin
    ELSE IF val >= valmax THEN valmax
    ELSE val

\* Axes holding no artist (a new subplot, or the axes after ax.clear()).
NoDrawing == [quivers |-> <<>>, contours |-> <<>>, lines |-> <<>>]

\* The markers of the loop "for charge in charges: ax.plot(charge.pos[0],
\* charge.pos[1], 'o', color=color)", color being red if charge.q > 0 else blue.
markers(chs) ==
    [n \in 1..Len(chs) |->
        [x |-> chs[n].pos[1], y |-> chs[n].pos[2],
         color |-> IF chs[n].q > 0 THEN "red" ELSE "blue"]]

\* The axes holding exactly ax.quiver(XX, YY, g.Ex, g.Ey), ax.contour(XX, YY,
\* g.Vg) and one marker per charge of chs.
Drawing(XX, YY, g, chs) ==
    [quivers |-> << [X |-> XX, Y |-> YY, U |-> g.Ex, V |-> g.Ey] >>,
     contours |-> << [X |-> XX, Y |-> YY, Z |-> g.Vg] >>,
     lines |-> markers(chs)]

\* Mutant of update_lines: the grid is evaluated before the charge is written.
update_lines_stale ==
    << "calculate_field_grid", "charges[0].q", "charges[0].pos[0]",
       "ax.clear", "ax.quiver", "ax.contour", "ax.plot" >>

\* The statements of update(val), lines 284-301, in program order.
update_lines ==
    << "charges[0].q", "charges[0].pos[0]", "calculate_field_grid",
       "ax.clear", "ax.quiver", "ax.contour", "ax.plot" >>

\* The evaluating and drawing statements of plot_interactive_field, lines
\* 191-244, in program order (the axes are new: nothing to clear).
plot_interactive_field_lines ==
    << "calculate_field_grid", "ax.quiver", "ax.contour", "ax.plot" >>

\* One statement of update / plot_interactive_field run on h: the global charge
\* list (charges), the local result Ex, Ey, V (g), the axes (axes), and the
\* statements run so far (log).  XX, YY, gp are field.X, field.Y and
\* field.grid_points; q1 and x1 are the sliders' values.
exec(stmt, h, XX, YY, gp, q1, x1) ==
    LET l == [h EXCEPT !.log = Append(@, stmt)]
    IN  CASE stmt = "charges[0].q" ->
               [l EXCEPT !.charges[1].q = nC_to_C(q1)]
          [] stmt = "charges[0].pos[0]" ->
               [l EXCEPT !.charges[1] = setitem(@, 1, x1)]
          [] stmt = "calculate_field_grid" ->
               [l EXCEPT !.g = GridCall(XX, YY, gp, h.charges)]
          [] stmt = "ax.clear" ->
               [l EXCEPT !.axes = NoDrawing]
          [] stmt = "ax.quiver" ->
               [l EXCEPT !.axes.quivers =
                   Append(@, [X |-> XX, Y |-> YY, U |-> h.g.Ex, V |-> h.g.Ey])]
          [] stmt = "ax.contour" ->
               [l EXCEPT !.axes.contours =
                   Append(@, [X |-> XX, Y |-> YY, Z |-> h.g.Vg])]
          [] stmt = "ax.plot" ->
               [l EXCEPT !.axes.lines = @ \o markers(h.charges)]

RECURSIVE run(_, _, _, _, _, _, _)
\* The statements of lines run in order.
run(lines, h, XX, YY, gp, q1, x1) ==
    IF lines = <<>> THEN h
    ELSE run(Tail(lines), exec(Head(lines), h, XX, YY, gp, q1, x1),
             XX, YY, gp, q1, x1)

\* No 3D figure, and the figure of plot_3d_potential (lines 350-377): the
\* surface go.Surface(x=field.X, y=field.Y, z=V) and one Scatter3d marker per
\* charge at (pos[0], pos[1], field.calculate_potential(charge.pos)), red if
\* charge.q > 0 else blue.
NoFigure == [shown |-> FALSE, x |-> <<>>, y |-> <<>>, z |-> <<>>, traces |-> <<>>]

Figure(XX, YY, g, chs) ==
    [shown |-> TRUE, x |-> XX, y |-> YY, z |-> g.Vg,
     traces |-> [n \in 1..Len(chs) |->
                   [x |-> chs[n].pos[1], y |-> chs[n].pos[2],
                    z |-> calculate_potential(chs[n].pos, chs).V,
                    color |-> IF chs[n].q > 0 THEN "red" ELSE "blue"]]]

Init ==
    /\ pc = "start"
    /\ charges \in ChargeLists
    /\ grid_size = 0
    /\ grid_points = 0
    /\ X = <<>>
    /\ Y = <<>>
    /\ call = NoCall
    /\ nmut = 0
    /\ q1_slider = 0
    /\ x1_slider = 0
    /\ drawn = NoDrawing
    /\ steps = <<>>
    /\ figure = NoFigure

\* ElectrostaticField.__init__(charges, grid_size, grid_points).  np.linspace
\* raises ValueError for a negative num; nothing else is checked.
Construct(gs, gp) ==
    /\ pc = "start"
    /\ IF gp < 0
       THEN /\ pc' = "raised"
            /\ UNCHANGED <<grid_size, grid_points, X, Y>>
       ELSE LET x == linspace(-HalfExtent(gs), HalfExtent(gs), gp)
                y == linspace(-HalfExtent(gs), HalfExtent(gs), gp)
            IN  /\ pc' = "ready"
                /\ grid_size' = gs
                /\ grid_points' = gp
                /\ X' = meshgridX(x, y)
                /\ Y' = meshgridY(x, y)
    /\ UNCHANGED <<charges, call, nmut, q1_slider, x1_slider, drawn, steps, figure>>

\* field.calculate_field(point) by a caller.
FieldAt(point) ==
    /\ pc = "ready"
    /\ call' = FieldCall(point, charges)
    /\ UNCHANGED <<pc, charges, grid_size, grid_points, X, Y, nmut,
                   q1_slider, x1_slider, drawn, steps, figure>>

\* field.calculate_potential(point) by a caller.
PotentialAt(point) ==
    /\ pc = "ready"
    /\ call' = PotentialCall(point, charges)
    /\ UNCHANGED <<pc, charges, grid_size, grid_points, X, Y, nmut,
                   q1_slider, x1_slider, drawn, steps, figure>>

\* Mutant of EvaluateGrid: the arrays of the previous evaluation are kept and
\* returned again.
EvaluateGrid_cached ==
    /\ pc = "ready"
    /\ call' = IF call.op = "grid"
               THEN [call EXCEPT !.charges = charges]
               ELSE GridCall(X, Y, grid_points, charges)
    /\ UNCHANGED <<pc, charges, grid_size, grid_points, X, Y, nmut,
                   q1_slider, x1_slider, drawn, steps, figure>>

\* Mutant of EvaluateGrid: "Ex = self.X" for "Ex = np.zeros_like(self.X)", so
\* that the loop's writes to Ex land in the lattice.
EvaluateGrid_alias ==
    /\ pc = "ready"
    /\ call' = GridCall(X, Y, grid_points, charges)
    /\ X' = call'.Ex
    /\ UNCHANGED <<pc, charges, grid_size, grid_points, Y, nmut,
                   q1_slider, x1_slider, drawn, steps, figure>>

\* field.calculate_field_grid() by a caller.
EvaluateGrid ==
    /\ pc = "ready"
    /\ call' = GridCall(X, Y, grid_points, charges)
    /\ UNCHANGED <<pc, charges, grid_size, grid_points, X, Y, nmut,
                   q1_slider, x1_slider, drawn, steps, figure>>

\* charges[n].q = q by a caller (in-place mutation of a magnitude).
MutateQ(n, q) ==
    /\ pc = "ready"
    /\ nmut < MaxMut
    /\ n \in 1..Len(charges)
    /\ charges' = [charges EXCEPT ![n].q = q]
    /\ nmut' = nmut + 1
    /\ UNCHANGED <<pc, grid_size, grid_points, X, Y, call,
                   q1_slider, x1_slider, drawn, steps, figure>>

\* charges[n].pos[idx] = v by a caller (in-place mutation of a coordinate).
MutatePos(n, idx, v) ==
    /\ pc = "ready"
    /\ nmut < MaxMut
    /\ n \in 1..Len(charges)
    /\ charges' = [charges EXCEPT ![n] = setitem(@, idx, v)]
    /\ nmut' = nmut + 1
    /\ UNCHANGED <<pc, grid_size, grid_points, X, Y, call,
                   q1_slider, x1_slider, drawn, steps, figure>>

\* plot_interactive_field right after it built the engine (lines 191-323): the
\* first evaluation and drawing, the two sliders started at charges[0]'s values,
\* and plt.show().  charges[0] of an empty list raises IndexError: no session.
Show ==
    /\ pc = "ready"
    /\ call.op = "none"
    /\ nmut = 0
    /\ Len(charges) >= 1
    /\ LET h == run(plot_interactive_field_lines,
                    [charges |-> charges, g |-> call, axes |-> NoDrawing, log |-> <<>>],
                    X, Y, grid_points, 0, 0)
       IN  /\ call' = h.g
           /\ drawn' = h.axes
           /\ steps' = h.log
    /\ q1_slider' = value_in_bounds(C_to_nC(charges[1].q), Q1Min, Q1Max)
    /\ x1_slider' = value_in_bounds(charges[1].pos[1], X1Min, X1Max)
    /\ pc' = "interactive"
    /\ UNCHANGED <<charges, grid_size, grid_points, X, Y, nmut, figure>>

\* update(val), lines 279-310, with the two sliders at q1 and x1: both values
\* are written into charges[0], the grid is evaluated again, the axes are
\* cleared and everything is drawn again.
update(q1, x1) ==
    LET h == run(update_lines,
                 [charges |-> charges, g |-> call, axes |-> drawn, log |-> <<>>],
                 X, Y, grid_points, q1, x1)
    IN  /\ charges' = h.charges
        /\ call' = h.g
        /\ drawn' = h.axes
        /\ steps' = h.log

\* The Q1 slider is dragged to val: if its (clipped) value changes, update runs.
SlideQ1(val) ==
    /\ pc = "interactive"
    /\ value_in_bounds(val, Q1Min, Q1Max) # q1_slider
    /\ q1_slider' = value_in_bounds(val, Q1Min, Q1Max)
    /\ update(q1_slider', x1_slider)
    /\ UNCHANGED <<pc, grid_size, grid_points, X, Y, nmut, x1_slider, figure>>

\* The X1 slider is dragged to val: if its (clipped) value changes, update runs.
SlideX1(val) ==
    /\ pc = "interactive"
    /\ value_in_bounds(val, X1Min, X1Max) # x1_slider
    /\ x1_slider' = value_in_bounds(val, X1Min, X1Max)
    /\ update(q1_slider, x1_slider')
    /\ UNCHANGED <<pc, grid_size, grid_points, X, Y, nmut, q1_slider, figure>>

\* The window is closed, plt.show() returns and __main__ (line 414) runs
\* plot_3d_potential(chs) on the global list: a new ElectrostaticField(chs)
\* (line 331; like the session's engine it is built with the defaults, so with
\* the arguments the session's engine was built with), one grid evaluation
\* (line 336), the surface, and one marker per charge, whose height is a
\* calculate_potential call (line 372), the last of which is the latest call.
plot_3d_potential(chs) ==
    /\ pc = "interactive"
    /\ LET x == linspace(-HalfExtent(grid_size), HalfExtent(grid_size), grid_points)
           y == linspace(-HalfExtent(grid_size), HalfExtent(grid_size), grid_points)
           g == GridCall(meshgridX(x, y), meshgridY(x, y), grid_points, chs)
       IN  /\ figure' = Figure(meshgridX(x, y), meshgridY(x, y), g, chs)
           /\ call' = IF chs = <<>> THEN g
                      ELSE PotentialCall(chs[Len(chs)].pos, chs)
    /\ steps' = <<"calculate_field_grid", "go.Surface", "go.Scatter3d">>
    /\ pc' = "done"
    /\ UNCHANGED <<charges, grid_size, grid_points, X, Y, nmut,
                   q1_slider, x1_slider, drawn>>

Next ==
    \/ \E args \in EngineArgs : Construct(args[1], args[2])
    \/ \E point \in Points : FieldAt(point)
    \/ \E point \in Points : PotentialAt(point)
    \/ EvaluateGrid
    \/ \E n \in 1..Len(charges), q \in QVals : MutateQ(n, q)
    \/ \E n \in 1..Len(charges), idx \in 1..2, v \in PosVals : MutatePos(n, idx, v)
    \/ Show
    \/ \E val \in Q1Vals : SlideQ1(val)
    \/ \E val \in X1Vals : SlideX1(val)
    \/ plot_3d_potential(charges)

Spec == Init /\ [][Next]_vars

\* ------------------------------------------------------------------- claims

RECURSIVE SumSet(_, _)
\* The sum of f[n] over n in S.
SumSet(S, f) ==
    IF S = {} THEN 0
    ELSE LET n == CHOOSE m \in S : TRUE
         IN  f[n] + SumSet(S \ {n}, f)

\* The exact squared distance from point p to charge c, in model units.
Dist2(p, c) ==
    (p[1] - c.pos[1]) * (p[1] - c.pos[1]) + (p[2] - c.pos[2]) * (p[2] - c.pos[2])

\* distance(p, c) >= 0.1, = 0.1, > 0.1, decided on the squares.
AtLeastThreshold(p, c) ==
    ThreshDen * ThreshDen * Dist2(p, c) >= ThreshNum * ThreshNum * Unit * Unit

AtThreshold(p, c) ==
    ThreshDen * ThreshDen * Dist2(p, c) = ThreshNum * ThreshNum * Unit * Unit

BeyondThreshold(p, c) ==
    ThreshDen * ThreshDen * Dist2(p, c) > ThreshNum * ThreshNum * Unit * Unit

\* The charges of chs (by index) at distance >= 0.1 from p.
Contributing(p, chs) == { n \in 1..Len(chs) : AtLeastThreshold(p, chs[n]) }

\* One component of k*q*(p - pos)/|p - pos|^3.
CoulombField(p, c, axis) ==
    LET d == norm(<<p[1] - c.pos[1], p[2] - c.pos[2]>>)
    IN  Quot(K * c.q * (p[axis] - c.pos[axis]) * Unit, d * d * d)

\* k*q/|p - pos|.
CoulombPotential(p, c) ==
    Quot(K * c.q * Unit, norm(<<p[1] - c.pos[1], p[2] - c.pos[2]>>))

CoulombFieldSum(p, chs) ==
    << SumSet(Contributing(p, chs),
              [n \in 1..Len(chs) |-> CoulombField(p, chs[n], 1)]),
       SumSet(Contributing(p, chs),
              [n \in 1..Len(chs) |-> CoulombField(p, chs[n], 2)]) >>

CoulombPotentialSum(p, chs) ==
    SumSet(Contributing(p, chs), [n \in 1..Len(chs) |-> CoulombPotential(p, chs[n])])

\* C1: calculate_field(point) returns the vector sum of k*q*(point - pos)/
\* |point - pos|^3 over exactly the charges at distance >= 0.1 from point: a
\* charge strictly closer contributes nothing, one at exactly 0.1 contributes.
C1_FieldIsThresholdedSum ==
    call.op = "field" => call.E = CoulombFieldSum(call.point, call.charges)

\* C1 witness: a field call with one charge exactly 0.1 away (which contributes
\* a nonzero term) and a nonzero charge strictly inside the threshold.
C1_Witness ==
    /\ call.op = "field"
    /\ \E n \in 1..Len(call.charges) :
          /\ AtThreshold(call.point, call.charges[n])
          /\ CoulombField(call.point, call.charges[n], 1) # 0
    /\ \E n \in 1..Len(call.charges) :
          /\ ~AtLeastThreshold(call.point, call.charges[n])
          /\ Dist2(call.point, call.charges[n]) > 0
          /\ call.charges[n].q # 0

\* The charges of chs the two loops skip at p.
SkippedByField(p, chs) ==
    { n \in 1..Len(chs) :
        skip_field(norm(<<p[1] - chs[n].pos[1], p[2] - chs[n].pos[2]>>)) }

SkippedByPotential(p, chs) ==
    { n \in 1..Len(chs) :
        skip_potential(norm(<<p[1] - chs[n].pos[1], p[2] - chs[n].pos[2]>>)) }

\* C2: calculate_potential(point) returns the sum of k*q/|point - pos| over
\* exactly the charges at distance >= 0.1, the same charges calculate_field
\* keeps at that point; for a single charge at the origin and a point beyond the
\* threshold that is k*q/|point|.
C2_PotentialIsThresholdedSum ==
    call.op = "potential" =>
        /\ call.V = CoulombPotentialSum(call.point, call.charges)
        /\ SkippedByPotential(call.point, call.charges)
               = SkippedByField(call.point, call.charges)
        /\ ( /\ Len(call.charges) = 1
             /\ call.charges[1].pos = <<0, 0>>
             /\ BeyondThreshold(call.point, call.charges[1]) )
           => call.V = Quot(K * call.charges[1].q * Unit, norm(call.point))

\* C2 witness: a potential call with a charge exactly 0.1 away, a nonzero charge
\* strictly inside the threshold, and a nonzero result.
C2_Witness ==
    /\ call.op = "potential"
    /\ call.V # 0
    /\ \E n \in 1..Len(call.charges) : AtThreshold(call.point, call.charges[n])
    /\ \E n \in 1..Len(call.charges) :
          /\ ~AtLeastThreshold(call.point, call.charges[n])
          /\ call.charges[n].q # 0

\* An engine exists (the constructor returned).
Constructed == pc \in {"ready", "interactive", "done"}

\* C3: a construction with a non-positive grid_points or grid_size is
\* rejected: no engine exists with such a configuration (so none is evaluated).
C3_NonPositiveRejected ==
    Constructed => (grid_points > 0 /\ grid_size > 0)

\* The lattice's index pairs.
LatticeIndex == { <<i, j>> \in (DOMAIN X) \X (DOMAIN X) : j \in DOMAIN X[i] }

\* Some lattice sample point is the position of some charge.
Coincidence ==
    \E ij \in LatticeIndex, n \in 1..Len(charges) :
        <<X[ij[1]][ij[2]], Y[ij[1]][ij[2]]>> = charges[n].pos

\* C4 as claimed: in every reachable state of an engine (here: of one with a
\* positive extent and resolution), no lattice sample point coincides with the
\* position of a charge.
C4_NoCoincidence ==
    (Constructed /\ grid_size > 0 /\ grid_points > 0) => ~Coincidence

\* C4 as amended: with a positive extent, an even resolution and every charge
\* on the x-axis (y = 0), no lattice sample point coincides with a charge.
C4_NoCoincidenceEvenGrid ==
    ( /\ Constructed
      /\ grid_size > 0
      /\ grid_points % 2 = 0
      /\ \A n \in 1..Len(charges) : charges[n].pos[2] = 0 )
    => ~Coincidence

\* C4 witness: an even positive grid in the interactive session, after the
\* first charge was slid to the origin (x = 0 on the x-axis).
C4_Witness ==
    /\ pc = "interactive"
    /\ grid_size > 0
    /\ grid_points = 2
    /\ x1_slider = 0
    /\ charges[1].pos = <<0, 0>>
    /\ \A n \in 1..Len(charges) : charges[n].pos[2] = 0

\* The lattice a newly constructed engine computes from (gs, gp).
FreshX(gs, gp) ==
    meshgridX(linspace(-HalfExtent(gs), HalfExtent(gs), gp),
              linspace(-HalfExtent(gs), HalfExtent(gs), gp))

FreshY(gs, gp) ==
    meshgridY(linspace(-HalfExtent(gs), HalfExtent(gs), gp),
              linspace(-HalfExtent(gs), HalfExtent(gs), gp))

\* C5: every calculate_field_grid() call returns exactly the (Ex, Ey, V) a
\* newly constructed engine with the same grid_size and grid_points and the
\* charge values of the moment of the call returns, whatever mutations and
\* evaluations came before.
C5_EvaluationIsFresh ==
    call.op = "grid" =>
        LET g == calculate_field_grid(FreshX(grid_size, grid_points),
                                      FreshY(grid_size, grid_points),
                                      grid_points, call.charges)
        IN  /\ call.Ex = g.Ex
            /\ call.Ey = g.Ey
            /\ call.Vg = g.V

\* C5 witness: in the interactive session (whose opening evaluated the grid),
\* after the sliders moved the first default charge to 2.5 nC at x = 0 and the
\* grid was evaluated again, on a grid with points.
C5_Witness ==
    /\ pc = "interactive"
    /\ call.op = "grid"
    /\ call.charges = charges
    /\ grid_points >= 2
    /\ Len(charges) = 2
    /\ charges[1].q = 5
    /\ charges[1].pos = <<0, 0>>

\* The lists a and b differ in the magnitude of exactly one charge and in
\* nothing else.
OneMagnitudeChanged(a, b) ==
    /\ Len(a) = Len(b)
    /\ \A n \in 1..Len(a) : a[n].pos = b[n].pos /\ a[n].dtype = b[n].dtype
    /\ Cardinality({ n \in 1..Len(a) : a[n].q # b[n].q }) = 1

\* The lattice point ij is farther than the threshold from every charge of chs.
FarFromAll(ij, chs) ==
    \A n \in 1..Len(chs) : BeyondThreshold(<<X[ij[1]][ij[2]], Y[ij[1]][ij[2]]>>, chs[n])

\* C6: when one charge's magnitude has changed (positions unchanged) between
\* one calculate_field_grid() call and the next, the potential entry of every
\* lattice point farther than the threshold from all charges differs.
C6_MagnitudeChangeShows ==
    [][ ( /\ call.op = "grid"
          /\ call'.op = "grid"
          /\ OneMagnitudeChanged(call.charges, call'.charges) )
        => \A ij \in LatticeIndex :
              FarFromAll(ij, call.charges) => call'.Vg[ij[1]][ij[2]] # call.Vg[ij[1]][ij[2]]
      ]_vars

\* C6 witness: the interactive session on the default charges with only the
\* Q1 slider moved (to 2.5 nC), the grid evaluated before and after, and a
\* lattice point far from all charges.
C6_Witness ==
    /\ pc = "interactive"
    /\ call.op = "grid"
    /\ call.charges = charges
    /\ q1_slider = 25
    /\ Len(charges) = 2
    /\ charges[1].q = 5
    /\ charges[1].pos = <<-2 * Metre, 0>>
    /\ \E ij \in LatticeIndex : FarFromAll(ij, charges)

\* C7: a calculate_field, calculate_potential or calculate_field_grid call by a
\* caller changes nothing but its own result: the charge list, grid_size,
\* grid_points, X and Y (and the sliders and the drawing) are as before.
C7_EvaluationHasNoSideEffect ==
    [][ (pc = "ready" /\ pc' = "ready" /\ call' # call)
        => /\ engine' = engine
           /\ UNCHANGED <<nmut, q1_slider, x1_slider, drawn, steps, figure>>
      ]_vars

\* C7 witness: a grid evaluation by a caller on a grid with points and charges.
C7_Witness ==
    /\ pc = "ready"
    /\ call.op = "grid"
    /\ call.charges = charges
    /\ grid_points >= 2
    /\ Len(charges) >= 2
    /\ call.written # {}

\* C8: for every grid_points >= 1, calculate_field_grid() returns three arrays
\* of shape grid_points x grid_points, and its loop writes every entry.
C8_GridShape ==
    (call.op = "grid" /\ grid_points >= 1) =>
        /\ \A A \in {call.Ex, call.Ey, call.Vg} :
              /\ DOMAIN A = 0..(grid_points - 1)
              /\ \A i \in DOMAIN A : DOMAIN A[i] = 0..(grid_points - 1)
        /\ call.written = (0..(grid_points - 1)) \X (0..(grid_points - 1))

\* C8 witness: a grid evaluation with grid_points = 1 and charges.
C8_Witness ==
    /\ call.op = "grid"
    /\ grid_points = 1
    /\ Len(call.charges) >= 1
    /\ call.written = {<<0, 0>>}

\* C9: calculate_field and calculate_potential on a charge list equal the sums
\* of the results of the engines holding one charge of the list each.
C9_Superposition ==
    /\ call.op = "field" =>
          \A axis \in 1..2 :
              call.E[axis] =
                  SumSet(1..Len(call.charges),
                         [n \in 1..Len(call.charges) |->
                            calculate_field(call.point, <<call.charges[n]>>).E[axis]])
    /\ call.op = "potential" =>
          call.V =
              SumSet(1..Len(call.charges),
                     [n \in 1..Len(call.charges) |->
                        calculate_potential(call.point, <<call.charges[n]>>).V])

\* C9 witness: a field call on three charges of which the first is inside the
\* threshold and a later one contributes.
C9_Witness ==
    /\ call.op = "field"
    /\ Len(call.charges) = 3
    /\ ~AtLeastThreshold(call.point, call.charges[1])
    /\ AtLeastThreshold(call.point, call.charges[2])
    /\ call.E # <<0, 0>>

\* C10: no evaluation divides by zero: every distance a quotient is taken by
\* is at least 0.1 (so positive), and the result is finite.
C10_NoDivisionByZero ==
    call.op # "none" =>
        /\ call.fin
        /\ \A d \in call.den : d >= Threshold /\ d > 0

\* C10 witness: a field call at a point that is the position of a nonzero
\* charge, with another charge contributing.
C10_Witness ==
    /\ call.op = "field"
    /\ \E n \in 1..Len(call.charges) :
          Dist2(call.point, call.charges[n]) = 0 /\ call.charges[n].q # 0
    /\ call.den # {}
    /\ call.fin

\* chs is an equal-and-opposite pair on the x-axis: +q at (-a, 0) and -q at
\* (+a, 0), for some q > 0 and a > 0.
IsDipole(chs) ==
    /\ Len(chs) = 2
    /\ chs[1].q > 0
    /\ chs[2].q = -chs[1].q
    /\ chs[1].pos[1] < 0
    /\ chs[2].pos[1] = -chs[1].pos[1]
    /\ chs[1].pos[2] = 0
    /\ chs[2].pos[2] = 0

\* The index pairs of the lattice whose sample point is the origin.
OriginIndex == { ij \in LatticeIndex : X[ij[1]][ij[2]] = 0 /\ Y[ij[1]][ij[2]] = 0 }

\* C11: for +q at (-a, 0) and -q at (+a, 0), calculate_potential((0, 0)) is
\* exactly 0 and the y-component of calculate_field((0, 0)) is 0; with
\* grid_size = 10 and grid_points = 5 the lattice contains (0, 0) and the V
\* entry calculate_field_grid() returns for that point is 0.
C11_DipoleOrigin ==
    /\ (call.op = "potential" /\ call.point = <<0, 0>> /\ IsDipole(call.charges))
          => call.V = 0
    /\ (call.op = "field" /\ call.point = <<0, 0>> /\ IsDipole(call.charges))
          => call.E[2] = 0
    /\ (Constructed /\ grid_size = DefaultGridSize /\ grid_points = 5)
          => /\ OriginIndex # {}
             /\ (call.op = "grid" /\ IsDipole(call.charges))
                   => \A ij \in OriginIndex : call.Vg[ij[1]][ij[2]] = 0

\* C11 witness: the default pair evaluated on the 5 x 5 lattice of extent 10,
\* whose potential is not zero everywhere.
C11_Witness ==
    /\ call.op = "grid"
    /\ grid_size = DefaultGridSize
    /\ grid_points = 5
    /\ call.charges = DefaultCharges
    /\ IsDipole(call.charges)
    /\ \E ij \in LatticeIndex : call.Vg[ij[1]][ij[2]] # 0

\* The session runs on the default charge list (built from integer
\* coordinates), of which the sliders have changed at most the first charge.
OnDefaultCharges ==
    /\ Len(charges) = Len(DefaultCharges)
    /\ charges[1].dtype = DefaultCharges[1].dtype
    /\ charges[1].pos[2] = DefaultCharges[1].pos[2]
    /\ charges[2] = DefaultCharges[2]

\* C12: in the interactive session on the default charge list, after update ran
\* with the X1 slider at v and the Q1 slider at m, the first charge's x is v
\* exactly (no rounding or truncation), its magnitude is m * 1e-9, and the
\* grid evaluation of that update used exactly those values.
C12_SliderWritesExactly ==
    (pc = "interactive" /\ OnDefaultCharges) =>
        /\ charges[1].pos[1] = x1_slider
        /\ charges[1].q = nC_to_C(q1_slider)
        /\ call.op = "grid"
        /\ call.charges = charges

\* The samples of one axis of the engine's lattice (lines 71-72).
AxisSamples == linspace(-HalfExtent(grid_size), HalfExtent(grid_size), grid_points)

\* C13: for every index pair (i, j) with 0 <= i, j < grid_points, the arrays
\* calculate_field_grid() returns hold Ex[i,j] = calculate_field(p)[0],
\* Ey[i,j] = calculate_field(p)[1] and V[i,j] = calculate_potential(p) at
\* p = (X[i,j], Y[i,j]) = (x_j, y_i): the first index selects the y sample, the
\* second the x sample, and the lattice arrays drawn with them are X and Y.
C13_GridEntries ==
    call.op = "grid" =>
        /\ \A i \in 0..(grid_points - 1), j \in 0..(grid_points - 1) :
              LET p == <<X[i][j], Y[i][j]>>
              IN  /\ p = <<AxisSamples[j], AxisSamples[i]>>
                  /\ call.Ex[i][j] = calculate_field(p, call.charges).E[1]
                  /\ call.Ey[i][j] = calculate_field(p, call.charges).E[2]
                  /\ call.Vg[i][j] = calculate_potential(p, call.charges).V
        /\ pc = "interactive" =>
              /\ \A n \in 1..Len(drawn.quivers) :
                    drawn.quivers[n].X = X /\ drawn.quivers[n].Y = Y
              /\ \A n \in 1..Len(drawn.contours) :
                    drawn.contours[n].X = X /\ drawn.contours[n].Y = Y

\* C13 witness: a grid evaluation on a lattice of positive extent whose result
\* is not symmetric in its two indices (exchanging i and j changes an entry).
C13_Witness ==
    /\ call.op = "grid"
    /\ grid_size > 0
    /\ grid_points >= 3
    /\ \E i \in 0..(grid_points - 1), j \in 0..(grid_points - 1) :
          /\ call.Ex[i][j] # call.Ex[j][i]
          /\ call.Vg[i][j] # call.Vg[j][i]

\* x holds n evenly spaced samples running from -extent/2 to +extent/2 (for
\* n = 1 the single sample -extent/2), gs being the extent in metres.
EvenlySpaced(x, gs, n) ==
    /\ DOMAIN x = 0..(n - 1)
    /\ n >= 1 => 2 * x[0] = -(gs * Unit)
    /\ n >= 2 => 2 * x[n - 1] = gs * Unit
    /\ \A i \in 1..(n - 2) : x[i + 1] - x[i] = x[i] - x[i - 1]

\* The smallest and the largest sample of a non-empty axis x.
MinSample(x) == CHOOSE v \in { x[i] : i \in DOMAIN x } : \A i \in DOMAIN x : v <= x[i]

MaxSample(x) == CHOOSE v \in { x[i] : i \in DOMAIN x } : \A i \in DOMAIN x : v >= x[i]

\* The lattice of a constructed engine is as __init__ computes it from
\* grid_size and grid_points.
LatticeAsConstructed ==
    Constructed =>
        /\ EvenlySpaced(AxisSamples, grid_size, grid_points)
        /\ DOMAIN X = 0..(grid_points - 1)
        /\ DOMAIN Y = 0..(grid_points - 1)
        /\ \A i \in 0..(grid_points - 1) :
              /\ DOMAIN X[i] = 0..(grid_points - 1)
              /\ DOMAIN Y[i] = 0..(grid_points - 1)
              /\ \A j \in 0..(grid_points - 1) :
                    X[i][j] = AxisSamples[j] /\ Y[i][j] = AxisSamples[i]
        /\ (grid_size > 0 /\ grid_points >= 1)
              => 2 * MinSample(AxisSamples) = -(grid_size * Unit)
        /\ (grid_size > 0 /\ grid_points >= 2)
              => 2 * MaxSample(AxisSamples) = grid_size * Unit

\* The axis of grid_size 10 with the default 30 samples spans [-5, 5].
DefaultSpan ==
    LET x == linspace(-HalfExtent(DefaultGridSize), HalfExtent(DefaultGridSize),
                      DefaultGridPoints)
    IN  /\ DOMAIN x = 0..(DefaultGridPoints - 1)
        /\ MinSample(x) = -5 * Metre
        /\ MaxSample(x) = 5 * Metre

\* C14: in every state after construction, across charge mutations, slider
\* updates and evaluations, the lattice is the one computed at construction:
\* per axis grid_points evenly spaced samples from -grid_size/2 to
\* +grid_size/2 (for a positive grid_size the smallest and, from two samples
\* on, the largest), combined into grid_points x grid_points pairs; no step
\* of a constructed engine changes grid_size, grid_points, X or Y; and the
\* default axis (10, 30) spans [-5, 5].
C14_LatticeFixed ==
    /\ [](LatticeAsConstructed)
    /\ []((Constructed /\ grid_size = DefaultGridSize) => DefaultSpan)
    /\ [][Constructed => UNCHANGED <<grid_size, grid_points, X, Y>>]_vars

\* C14 witness: the 5 x 5 lattice of extent 10 in the interactive session
\* after both sliders moved the first default charge (to 2.5 nC at x = 0).
C14_Witness ==
    /\ pc = "interactive"
    /\ grid_size = DefaultGridSize
    /\ grid_points = 5
    /\ OnDefaultCharges
    /\ charges[1].q = 5
    /\ charges[1].pos[1] = 0
    /\ X[0][0] = -5 * Metre
    /\ X[4][4] = 5 * Metre

\* The positions of statement stmt in log.
Index(log, stmt) == { i \in 1..Len(log) : log[i] = stmt }

\* The statements in log named in before all come ahead of those named in after.
Precede(log, before, after) ==
    \A b \in before, a \in after :
        \A i \in Index(log, b), j \in Index(log, a) : i < j

\* log is one slider event: both charge writes, then exactly one grid
\* evaluation, then one clear, then the quiver, the contour and the markers.
EventOrder(log) ==
    /\ \A stmt \in {"charges[0].q", "charges[0].pos[0]", "calculate_field_grid",
                     "ax.clear", "ax.quiver", "ax.contour", "ax.plot"} :
          Cardinality(Index(log, stmt)) = 1
    /\ Precede(log, {"charges[0].q", "charges[0].pos[0]"}, {"calculate_field_grid"})
    /\ Precede(log, {"calculate_field_grid"}, {"ax.clear"})
    /\ Precede(log, {"ax.clear"}, {"ax.quiver", "ax.contour", "ax.plot"})

\* What the axes show is what the current charge list gives: the arrays of a
\* grid evaluation of the charges as they are now, and their markers.
DisplayCurrent ==
    pc \in {"interactive", "done"} =>
        drawn = Drawing(X, Y, GridCall(X, Y, grid_points, charges), charges)

\* The 3D figure shows the potential and the markers of the charges as they
\* are at the end of the session.
FigureCurrent ==
    pc = "done" =>
        figure = Figure(FreshX(grid_size, grid_points), FreshY(grid_size, grid_points),
                        GridCall(FreshX(grid_size, grid_points),
                                 FreshY(grid_size, grid_points),
                                 grid_points, charges),
                        charges)

\* C15: the display is never stale.  Every slider event runs, in this order,
\* the writes to the charge, exactly one calculate_field_grid(), ax.clear()
\* and the drawing; after every event the arrays and markers on the axes are
\* those of the grid evaluation and of the charges of the current list (and
\* the latest evaluation is of that list); and plot_3d_potential, run after
\* the session, leaves the charges as the last update left them and shows
\* their potential.
C15_DisplayNeverStale ==
    /\ [](DisplayCurrent /\ FigureCurrent)
    /\ [](pc = "interactive" => (call.op = "grid" /\ call.charges = charges))
    /\ [][ (pc = "interactive" /\ pc' = "interactive") => EventOrder(steps') ]_vars
    /\ [][ (pc = "interactive" /\ pc' = "done") => charges' = charges ]_vars

\* C15 witness: the 3D plot after a session on the default charges in which
\* both sliders were moved (first charge 2.5 nC at x = 0), on a lattice with
\* points, its surface differing from the one of the initial charges.
C15_Witness ==
    /\ pc = "done"
    /\ grid_size = DefaultGridSize
    /\ grid_points >= 3
    /\ OnDefaultCharges
    /\ charges[1].q = 5
    /\ charges[1].pos[1] = 0
    /\ Len(drawn.quivers) = 1
    /\ figure.shown
    /\ figure.z # calculate_field_grid(X, Y, grid_points, DefaultCharges).V
    /\ drawn.contours[1].Z = figure.z

\* C16: a slider event changes only the first charge's magnitude and x, and
\* writes both (the magnitude from the Q1 slider, the x from the X1 slider)
\* whichever slider fired: the first charge's y, every other charge and the
\* length and order of the list are as before; and throughout the session the
\* first charge's magnitude is within [-5 nC, 5 nC] and its x within [-4, 4].
C16_UpdateFrame ==
    /\ [][ (pc = "interactive" /\ pc' = "interactive") =>
              /\ Len(charges') = Len(charges)
              /\ \A n \in 2..Len(charges) : charges'[n] = charges[n]
              /\ charges'[1].pos[2] = charges[1].pos[2]
              /\ charges'[1].dtype = charges[1].dtype
              /\ charges'[1].q = nC_to_C(q1_slider')
              /\ charges'[1].pos[1] = setitem(charges[1], 1, x1_slider').pos[1]
              /\ Index(steps', "charges[0].q") # {}
              /\ Index(steps', "charges[0].pos[0]") # {}
       ]_vars
    /\ [](pc = "interactive" =>
              /\ charges[1].q >= -5 * NanoCoulomb
              /\ charges[1].q <= 5 * NanoCoulomb
              /\ charges[1].pos[1] >= -4 * Metre
              /\ charges[1].pos[1] <= 4 * Metre)

\* C16 witness: a session on three charges in which both sliders were dragged
\* beyond their upper ends: the first charge is 5 nC at x = 4, its y and the
\* other two charges are as they started.
C16_Witness ==
    /\ pc = "interactive"
    /\ Len(charges) = 3
    /\ charges[1].q = 5 * NanoCoulomb
    /\ charges[1].pos = <<4 * Metre, NearCharges[1].pos[2]>>
    /\ charges[1].pos[2] # 0
    /\ charges[2] = NearCharges[2]
    /\ charges[3] = NearCharges[3]

====
